---------------------------- MODULE Spec2Model ----------------------------
(***************************************************************************)
(* The CSV -> SVG area-schedule generators: csvtosvg.py (batch, every      *)
(* *.csv of the directory), floor.py (batch, the single file Floor.csv)    *)
(* and space_calc.py (the GUI's generate_svg over an ordered file list).   *)
(*                                                                         *)
(* Text is a sequence of one-character strings.  A number is a record      *)
(* [k, v]: k is "int" (Python int), "float" (finite float), "inf" or       *)
(* "nan"; v is the value in 1/AreaScale m2 (decimal fixed point: sums and  *)
(* the unit conversion are exact, binary64 representation error is not     *)
(* modelled).                                                              *)
(***************************************************************************)
EXTENDS Integers, Sequences, FiniteSets, TLC

VARIABLES variant, input, pc, csv_files, idx, file_data_list,
          grand_total_area, elements, y, page_height, output, status,
          self_csv_files, listbox, selection

\* the state of CSVProcessorGUI: self.csv_files, the items of self.listbox
\* and the listbox's selection (a set of 0-based indices)
gui == <<self_csv_files, listbox, selection>>

vars == <<variant, input, pc, csv_files, idx, file_data_list,
          grand_total_area, elements, y, page_height, output, status,
          self_csv_files, listbox, selection>>

(***************************************************************************)
(* Bounds of the model.                                                    *)
(***************************************************************************)
MaxRows == 3
MaxFiles == 2
BulkPairs == 34
\* the paths the file dialog can return, and how many it returns at once
MaxPaths == 3
MaxPick == 2

(***************************************************************************)
(* USER CONTROLS / SVG CONFIGURATION (the same values in the three files,  *)
(* except PAGE_HEIGHT).                                                    *)
(***************************************************************************)
PAGE_WIDTH == 1100
PAGE_HEIGHT_BATCH == 3000
PAGE_HEIGHT_FLOOR == 800
START_X_NAME == 100
START_X_AREA == 1000
START_Y == 180
ROW_GAP == 42
ROUND_AREA == 2
\* SQM_TO_SQFT = 10.7639, as the integer 10.7639 * SqftScale
SQM_TO_SQFT == 107639
SqftScale == 10 ^ 4
\* 1 m2 = AreaScale units of v
AreaScale == 10 ^ 3
\* the units of v in one unit of the last displayed decimal
RoundUnit == AreaScale \div (10 ^ ROUND_AREA)
FILE_TITLE_GAP == 10
GROUP_GAP == 12
FILE_GAP == 40
ITEM_INDENT == 20
TITLE_Y == 80
TOTAL_Y == 130
HEIGHT_MARGIN == 100

\* " m" followed by the superscript two, written here as the ASCII "2"
AREA_UNIT_M2 == <<" ", "m", "2">>
AREA_UNIT_FT2 == <<" ", "s", "q", ".", "f", "t">>

PageHeightOf(v) == IF v = "floor" THEN PAGE_HEIGHT_FLOOR ELSE PAGE_HEIGHT_BATCH

(***************************************************************************)
(* Text helpers.                                                           *)
(***************************************************************************)
Digits == <<"0", "1", "2", "3", "4", "5", "6", "7", "8", "9">>

IsDigit(c) == \E d \in 1..10 : Digits[d] = c

DigitVal(c) == (CHOOSE d \in 1..10 : Digits[d] = c) - 1

IsSpace(c) == c \in {" ", "\t"}

\* The value a DictReader row yields for a column the row is too short for
\* (restval = None).
NoneVal == <<"<None>">>

RECURSIVE LStrip(_)
LStrip(s) == IF s # <<>> /\ IsSpace(Head(s)) THEN LStrip(Tail(s)) ELSE s

RECURSIVE RStrip(_)
RStrip(s) ==
    IF s # <<>> /\ IsSpace(s[Len(s)]) THEN RStrip(SubSeq(s, 1, Len(s) - 1)) ELSE s

\* str.strip()
Strip(s) == RStrip(LStrip(s))

RECURSIVE TakeToken(_)
TakeToken(s) ==
    IF s = <<>> \/ IsSpace(Head(s)) THEN <<>> ELSE <<Head(s)>> \o TakeToken(Tail(s))

\* name.split()[0]: the first whitespace-delimited token
FirstToken(s) == TakeToken(LStrip(s))

RECURSIVE NatToText(_)
NatToText(n) ==
    IF n < 10 THEN <<Digits[n + 1]>> ELSE NatToText(n \div 10) \o <<Digits[(n % 10) + 1]>>

RECURSIVE Escape(_)
\* xml.sax.saxutils.escape
Escape(s) ==
    IF s = <<>> THEN <<>>
    ELSE (CASE Head(s) = "&" -> <<"&", "a", "m", "p", ";">>
            [] Head(s) = "<" -> <<"&", "l", "t", ";">>
            [] Head(s) = ">" -> <<"&", "g", "t", ";">>
            [] OTHER -> <<Head(s)>>) \o Escape(Tail(s))

(***************************************************************************)
(* Numbers.                                                                *)
(***************************************************************************)
IntZero == [k |-> "int", v |-> 0]
Float(v) == [k |-> "float", v |-> v]
Inf == [k |-> "inf", v |-> 0]
NaN == [k |-> "nan", v |-> 0]

IsFinite(a) == a.k \in {"int", "float"}

\* a + b
FAdd(a, b) ==
    CASE a.k = "nan" \/ b.k = "nan" -> NaN
      [] a.k = "inf" \/ b.k = "inf" -> Inf
      [] a.k = "int" /\ b.k = "int" -> [k |-> "int", v |-> a.v + b.v]
      [] OTHER -> Float(a.v + b.v)

\* a < b (false whenever a NaN takes part)
FLt(a, b) ==
    CASE a.k = "nan" \/ b.k = "nan" -> FALSE
      [] a.k = "inf" -> FALSE
      [] b.k = "inf" -> TRUE
      [] OTHER -> a.v < b.v

\* a == b
FEq(a, b) ==
    CASE a.k = "nan" \/ b.k = "nan" -> FALSE
      [] a.k = "inf" \/ b.k = "inf" -> a.k = b.k
      [] OTHER -> a.v = b.v

\* a >= b
FGe(a, b) == FLt(b, a) \/ FEq(a, b)

\* n / d rounded to the nearest integer, ties to even (n >= 0, d > 0)
RoundDiv(n, d) ==
    LET q == n \div d
        r == n % d
    IN  IF 2 * r > d \/ (2 * r = d /\ q % 2 = 1) THEN q + 1 ELSE q

\* round(a, ROUND_AREA): an int stays an int
Round(a) ==
    IF a.k \in {"float", "int"}
    THEN [k |-> a.k, v |-> RoundDiv(a.v, RoundUnit) * RoundUnit]
    ELSE a

\* round(a * SQM_TO_SQFT, ROUND_AREA): the product is a float.  The exact
\* quotient a.v * SQM_TO_SQFT / den is computed in parts that fit 32 bits.
ToSqft(a) ==
    LET den == SqftScale * RoundUnit
        q == a.v \div den
        r == a.v % den
        hi == SQM_TO_SQFT \div den
        lo == SQM_TO_SQFT % den
        whole == q * SQM_TO_SQFT + r * hi + ((r * lo) \div den)
        rem == (r * lo) % den
        cents == IF 2 * rem > den \/ (2 * rem = den /\ whole % 2 = 1)
                 THEN whole + 1 ELSE whole
    IN  IF a.k \in {"float", "int"}
        THEN Float(cents * RoundUnit)
        ELSE a

\* str() of a number that round() returned
FormatNum(a) ==
    LET whole == a.v \div AreaScale
        cents == (a.v % AreaScale) \div RoundUnit
    IN  CASE a.k = "nan" -> <<"n", "a", "n">>
          [] a.k = "inf" -> <<"i", "n", "f">>
          [] a.k = "int" -> NatToText(a.v \div AreaScale)
          [] OTHER ->
                NatToText(whole) \o <<".">> \o
                (IF cents % 10 = 0 THEN NatToText(cents \div 10)
                 ELSE <<Digits[(cents \div 10) + 1], Digits[(cents % 10) + 1]>>)

\* f"{m2}{AREA_UNIT_M2} / {ft2}{AREA_UNIT_FT2}"
AreaText(m2, ft2) ==
    FormatNum(m2) \o AREA_UNIT_M2 \o <<" ", "/", " ">> \o FormatNum(ft2) \o AREA_UNIT_FT2

(***************************************************************************)
(* float(area_raw), for the unsigned decimal literals digits[.digits] and  *)
(* .digits with at most three decimals, and the words inf and nan; every   *)
(* other text raises ValueError (ok = FALSE).                              *)
(***************************************************************************)
RECURSIVE TakeDigits(_)
TakeDigits(s) ==
    IF s = <<>> \/ ~IsDigit(Head(s)) THEN <<>> ELSE <<Head(s)>> \o TakeDigits(Tail(s))

RECURSIVE DigitsVal(_)
DigitsVal(ds) ==
    IF ds = <<>> THEN 0 ELSE DigitsVal(SubSeq(ds, 1, Len(ds) - 1)) * 10 + DigitVal(ds[Len(ds)])

\* the decimals .d, .dd, .ddd in 1/AreaScale
FracVal(fp) ==
    CASE Len(fp) = 0 -> 0
      [] Len(fp) = 1 -> DigitsVal(fp) * (AreaScale \div 10)
      [] Len(fp) = 2 -> DigitsVal(fp) * (AreaScale \div 100)
      [] OTHER -> DigitsVal(SubSeq(fp, 1, 3))

ParseFloat(raw) ==
    LET s == Strip(raw)
        ip == TakeDigits(s)
        rest == SubSeq(s, Len(ip) + 1, Len(s))
        fp == IF rest # <<>> /\ Head(rest) = "." THEN TakeDigits(Tail(rest)) ELSE <<>>
        literal == /\ ip # <<>> \/ fp # <<>>
                   /\ rest = <<>> \/ (Head(rest) = "." /\ Len(fp) = Len(rest) - 1)
    IN  CASE s = <<"i", "n", "f">> -> [ok |-> TRUE, val |-> Inf]
          [] s = <<"n", "a", "n">> -> [ok |-> TRUE, val |-> NaN]
          [] s \notin {<<"i", "n", "f">>, <<"n", "a", "n">>} /\ literal ->
                [ok |-> TRUE, val |-> Float(DigitsVal(ip) * AreaScale + FracVal(fp))]
          [] OTHER -> [ok |-> FALSE, val |-> NaN]

(***************************************************************************)
(* list.sort / sorted with a float key, as CPython runs it on fewer than   *)
(* 64 elements (minrun = n): with reverse=True the list is reversed,       *)
(* sorted ascending and stably, and reversed again; the ascending sort is  *)
(* count_run (the leading run, reversed when strictly descending)          *)
(* followed by binarysort.  The only comparison is ISLT = FLt.  The        *)
(* elements are records whose field sk is the key.                         *)
(***************************************************************************)
Rev(s) == [i \in 1..Len(s) |-> s[Len(s) + 1 - i]]

\* count_run: the last index of the run that starts at 1
RunEnd(s, descending) ==
    LET stops == {i \in 2..Len(s) :
                    i = Len(s) \/ ~(FLt(s[i + 1].sk, s[i].sk) <=> descending)}
    IN  CHOOSE i \in stops : \A j \in stops : i <= j

RECURSIVE BinSearch(_, _, _, _)
BinSearch(s, pivot, l, r) ==
    IF l >= r THEN l
    ELSE LET p == l + ((r - l) \div 2)
         IN  IF FLt(pivot.sk, s[p].sk)
             THEN BinSearch(s, pivot, l, p)
             ELSE BinSearch(s, pivot, p + 1, r)

\* one pass of binarysort: s[1..i-1] is sorted, s[i] is put in its place
InsertAt(s, i) ==
    LET pivot == s[i]
        l == BinSearch(s, pivot, 1, i)
    IN  SubSeq(s, 1, l - 1) \o <<pivot>> \o SubSeq(s, l, i - 1)
        \o SubSeq(s, i + 1, Len(s))

RECURSIVE BinarySort(_, _, _)
\* the passes for s[lo], ..., s[hi] in this order (the range is halved, and the
\* first half evaluated before the second, to keep the evaluation shallow)
BinarySort(s, lo, hi) ==
    CASE lo > hi -> s
      [] lo = hi -> InsertAt(s, lo)
      [] OTHER -> LET mid == (lo + hi) \div 2
                      done == BinarySort(s, lo, mid)
                  IN  IF Len(done) = Len(s) THEN BinarySort(done, mid + 1, hi) ELSE done

SortAscending(s) ==
    IF Len(s) < 2 THEN s
    ELSE LET descending == FLt(s[2].sk, s[1].sk)
             n == RunEnd(s, descending)
             t == IF descending
                  THEN Rev(SubSeq(s, 1, n)) \o SubSeq(s, n + 1, Len(s))
                  ELSE s
         IN  BinarySort(t, n + 1, Len(s))

SortDescending(s) == Rev(SortAscending(Rev(s)))

(***************************************************************************)
(* process_csv_file.  A row is [name, area], the values row.get returns    *)
(* for the columns "IFC Class" and "Area": a text, or NoneVal.  groups is  *)
(* the defaultdict(list) in insertion order: a sequence of [key, items].   *)
(***************************************************************************)
Variants == {"csvtosvg", "floor", "space_calc"}

\* a key that is the whole name (no grouping by first token)
group_key_whole_name(v, name) == name

\* csvtosvg.py, space_calc.py: name.split()[0]
\* floor.py: name.split()[0] if ' ' in name else name
group_key(v, name) ==
    IF v = "floor"
    THEN IF \E i \in 1..Len(name) : name[i] = " " THEN FirstToken(name) ELSE name
    ELSE FirstToken(name)

\* a bucket that keeps only its latest record (assignment instead of append)
AppendItemOverwrites(groups, key, item) ==
    IF \E i \in 1..Len(groups) : groups[i].key = key
    THEN LET i == CHOOSE i \in 1..Len(groups) : groups[i].key = key
         IN  [groups EXCEPT ![i].items = <<item>>]
    ELSE Append(groups, [key |-> key, items |-> <<item>>])

\* groups[group_key].append(item)
AppendItem(groups, key, item) ==
    IF \E i \in 1..Len(groups) : groups[i].key = key
    THEN LET i == CHOOSE i \in 1..Len(groups) : groups[i].key = key
         IN  [groups EXCEPT ![i].items = Append(@, item)]
    ELSE Append(groups, [key |-> key, items |-> <<item>>])

\* the body of "for row in reader": acc is [raised, groups, total], raised when
\* .strip() is applied to None; nothing is read after that
ReadRow(v, row, acc) ==
    IF acc.raised THEN acc
    ELSE IF row.name = NoneVal \/ row.area = NoneVal
    THEN [acc EXCEPT !.raised = TRUE]
    ELSE LET name == Strip(row.name)
             area_raw == Strip(row.area)
             parsed == ParseFloat(area_raw)
         IN  IF name = <<>> \/ area_raw = <<>> \/ ~parsed.ok
             THEN acc
             ELSE [raised |-> FALSE,
                   groups |-> AppendItem(acc.groups, group_key(v, name),
                                         [name |-> name, area |-> parsed.val]),
                   total |-> FAdd(acc.total, parsed.val)]

RECURSIVE ReadRows(_, _, _)
\* the loop over the rows, first to last (the list is halved to keep the
\* evaluation shallow)
ReadRows(v, rows, acc) ==
    CASE Len(rows) = 0 -> acc
      [] Len(rows) = 1 -> ReadRow(v, rows[1], acc)
      [] OTHER -> LET h == Len(rows) \div 2
                      read == ReadRows(v, SubSeq(rows, 1, h), acc)
                  IN  IF read.raised THEN read
                      ELSE ReadRows(v, SubSeq(rows, h + 1, Len(rows)), read)

RECURSIVE SumFrom(_, _)
\* acc + items[1].area + ... + items[n].area, added in this order
SumFrom(items, acc) ==
    CASE Len(items) = 0 -> acc
      [] Len(items) = 1 -> FAdd(acc, items[1].area)
      [] OTHER -> LET h == Len(items) \div 2
                      part == SumFrom(SubSeq(items, 1, h), acc)
                  IN  IF part.k = "nan" THEN SumFrom(SubSeq(items, h + 1, Len(items)), NaN)
                      ELSE SumFrom(SubSeq(items, h + 1, Len(items)), part)

\* sum(item["area"] for item in items)
SumAreas(items) == SumFrom(items, IntZero)

\* the dict group_totals
GroupTotals(groups) ==
    [key \in {groups[i].key : i \in 1..Len(groups)} |->
        SumAreas((CHOOSE g \in {groups[i] : i \in 1..Len(groups)} : g.key = key).items)]

\* sorted(groups.items(), key=lambda g: group_totals[g[0]], reverse=True)
SortGroups(groups) ==
    LET totals == GroupTotals(groups)
        keyed == [i \in 1..Len(groups) |->
                    [sk |-> totals[groups[i].key], g |-> groups[i]]]
        sorted == SortDescending(keyed)
    IN  [i \in 1..Len(sorted) |-> sorted[i].g]

\* os.path.splitext(os.path.basename(path))[0] of the file with path number p
Basename(p) == <<"f">> \o NatToText(p)

\* raised: open() or the reader failed, or a row raised
process_csv_file(v, file) ==
    LET r == ReadRows(v, file.rows, [raised |-> FALSE, groups |-> <<>>, total |-> IntZero])
    IN  IF ~file.readable \/ r.raised
        THEN [raised |-> TRUE]
        ELSE [raised |-> FALSE,
              basename |-> Basename(file.path),
              sorted_groups |-> SortGroups(r.groups),
              file_total_area |-> r.total,
              group_totals |-> GroupTotals(r.groups)]

(***************************************************************************)
(* The render loop.  A label is one <text> element.                        *)
(***************************************************************************)
Label(x, yy, cls, text) == [x |-> x, y |-> yy, class |-> cls, text |-> text]

\* items.sort(key=lambda x: x["area"], reverse=True)
SortItems(items) ==
    LET keyed == [i \in 1..Len(items) |-> [sk |-> items[i].area, it |-> items[i]]]
        sorted == SortDescending(keyed)
    IN  [i \in 1..Len(sorted) |-> sorted[i].it]

\* the two labels of one record, the sq.ft taken from the rounded area
ItemLabelsFromRounded(item, x, yy, nameClass, areaClass) ==
    <<Label(x, yy, nameClass, Escape(item.name)),
      Label(START_X_AREA, yy, areaClass,
            AreaText(Round(item.area), ToSqft(Round(item.area))))>>

\* the two labels of one record
ItemLabels(item, x, yy, nameClass, areaClass) ==
    <<Label(x, yy, nameClass, Escape(item.name)),
      Label(START_X_AREA, yy, areaClass, AreaText(Round(item.area), ToSqft(item.area)))>>

\* for item in items: two labels, y += ROW_GAP
ItemRows(items, yy) ==
    [j \in 1..(2 * Len(items)) |->
        LET i == (j + 1) \div 2
        IN  ItemLabels(items[i], START_X_NAME + ITEM_INDENT, yy + (i - 1) * ROW_GAP,
                       "item", "area")[2 - (j % 2)]]

\* group_total = round(sum(...), ROUND_AREA); total_ft2 = round(group_total * SQM_TO_SQFT, ROUND_AREA)
GroupHeader(g, yy) ==
    LET group_total == Round(SumAreas(g.items))
        total_ft2 == ToSqft(group_total)
    IN  <<Label(START_X_NAME, yy, "group", Escape(g.key)),
          Label(START_X_AREA, yy, "group-area",
                <<"(", "T", "o", "t", "a", "l", ":", " ">>
                \o AreaText(group_total, total_ft2) \o <<")">>)>>

\* one pass of the loop that leaves the gap between groups after a group of
\* one record as well
RenderGroupGapAlways(g, yy) ==
    IF Len(g.items) = 1
    THEN [labels |-> ItemLabels(g.items[1], START_X_NAME, yy, "group", "group-area"),
          y |-> yy + ROW_GAP + GROUP_GAP,
          g |-> g]
    ELSE LET items == SortItems(g.items)
         IN  [labels |-> GroupHeader(g, yy) \o ItemRows(items, yy + ROW_GAP),
              y |-> yy + ROW_GAP + Len(items) * ROW_GAP + GROUP_GAP,
              g |-> [g EXCEPT !.items = items]]

\* one pass of the loop over sorted_groups
RenderGroup(g, yy) ==
    IF Len(g.items) = 1
    THEN [labels |-> ItemLabels(g.items[1], START_X_NAME, yy, "group", "group-area"),
          y |-> yy + ROW_GAP,
          g |-> g]
    ELSE LET items == SortItems(g.items)
         IN  [labels |-> GroupHeader(g, yy) \o ItemRows(items, yy + ROW_GAP),
              y |-> yy + ROW_GAP + Len(items) * ROW_GAP + GROUP_GAP,
              g |-> [g EXCEPT !.items = items]]

RECURSIVE RenderGroups(_, _)
\* the loop over sorted_groups; the lists it sorts are those of file_data
RenderGroups(groups, yy) ==
    IF groups = <<>> THEN [labels |-> <<>>, y |-> yy, groups |-> <<>>]
    ELSE LET first == RenderGroup(Head(groups), yy)
             rest == RenderGroups(Tail(groups), first.y)
         IN  [labels |-> first.labels \o rest.labels,
              y |-> rest.y,
              groups |-> <<first.g>> \o rest.groups]

\* the file title with the file's total
FileTitle(file_data, yy) ==
    <<Label(START_X_NAME, yy, "file-title", Escape(file_data.basename)),
      Label(START_X_AREA, yy, "file-total",
            AreaText(Round(file_data.file_total_area), ToSqft(file_data.file_total_area)))>>

\* the main title with the grand total
MainTitle(v, total) ==
    <<Label(PAGE_WIDTH \div 2, TITLE_Y, "main-title",
            CASE v = "csvtosvg" -> <<"T", "O", "T", "A", "L", " ", "A", "R", "E", "A">>
              [] v = "floor" -> <<"A", "R", "E", "A", " ", "S", "C", "H", "E", "D", "U", "L", "E">>
              [] OTHER -> <<"T", "O", "T", "A", "L", " ", "C", "A", "R", "P", "E", "T", " ",
                            "A", "R", "E", "A">>),
      Label(PAGE_WIDTH \div 2, TOTAL_Y, "main-title", AreaText(Round(total), ToSqft(total)))>>

(***************************************************************************)
(* The inputs.  input is what the run finds: the result of glob            *)
(* (csvtosvg.py, in any order), Floor.csv when it exists (floor.py), the   *)
(* ordered_files argument (space_calc.py).  A file is [path, readable,     *)
(* rows]; a file that cannot be opened or decoded has readable = FALSE.    *)
(***************************************************************************)
Row(name, area) == [name |-> name, area |-> area]

LivingRoom == Row(<<"L", "i", "v", "i", "n", "g", " ", "R", "o", "o", "m">>, <<"2", "0", ".", "5">>)
BedroomA == Row(<<"B", "e", "d", "r", "o", "o", "m", " ", "A">>, <<"1", "5", ".", "0">>)
BedroomB == Row(<<"B", "e", "d", "r", "o", "o", "m", " ", "B">>, <<"1", "2", ".", "0">>)
HallSmall == Row(<<" ", "H", "a", "l", "l", " ">>, <<" ", "0", ".", "0", "0", "4", " ">>)
HallText == Row(<<"H", "a", "l", "l">>, <<"a", "b", "c">>)
HallEmpty == Row(<<"H", "a", "l", "l">>, <<>>)
BlankName == Row(<<" ", " ">>, <<"5", ".", "0">>)
HallInf == Row(<<"H", "a", "l", "l">>, <<"i", "n", "f">>)
DenNan == Row(<<"D", "e", "n">>, <<"n", "a", "n">>)
HallShort == Row(<<"H", "a", "l", "l">>, NoneVal)

\* rows with equal areas: Bed 0..6 share the first token, Room0..6 do not
TieAreas ==
    <<<<"1", ".", "0">>, <<"1", ".", "0">>, <<"1", ".", "0">>, <<"1", ".", "0">>,
      <<"n", "a", "n">>, <<"1", ".", "0">>, <<"2", ".", "0">>>>
BedTie(i) == Row(<<"B", "e", "d", " ">> \o NatToText(i - 1), TieAreas[i])
RoomTie(i) == Row(<<"R", "o", "o", "m">> \o NatToText(i - 1), TieAreas[i])
\* names whose only inner whitespace is a tab
BedTabA == Row(<<"B", "e", "d", "\t", "A">>, <<"1", ".", "0">>)
BedTabB == Row(<<"B", "e", "d", "\t", "B">>, <<"2", ".", "0">>)
TiePool == {BedTie(1), BedTie(2), RoomTie(1), RoomTie(2), BedTie(7), BedTabA, BedTabB}

RowPool == {LivingRoom, BedroomA, BedroomB, HallSmall, HallText, HallEmpty,
            BlankName, HallInf, DenNan, HallShort}

\* the rows of the files of a batch of several files
BatchRowPool == {LivingRoom, HallShort}

RowSeqs(pool, n) == UNION {[1..k -> pool] : k \in 0..n}

Unreadable == [readable |-> FALSE, rows |-> <<>>]

Contents(pool, n) ==
    {Unreadable} \cup {[readable |-> TRUE, rows |-> r] : r \in RowSeqs(pool, n)}

RECURSIVE Splits(_, _, _)
\* the contents of k files that hold at most n rows together
Splits(pool, n, k) ==
    IF k = 0 THEN {<<>>}
    ELSE UNION {{<<c>> \o rest : rest \in Splits(pool, n - Len(c.rows), k - 1)}
                : c \in Contents(pool, n)}

\* the lists of k distinct paths
PathLists(k) ==
    {ps \in [1..k -> 1..MaxFiles] : \A i, j \in 1..k : i # j => ps[i] # ps[j]}

File(path, c) == [path |-> path, readable |-> c.readable, rows |-> c.rows]

Repeat(s, n) == [i \in 1..(n * Len(s)) |-> s[((i - 1) % Len(s)) + 1]]

\* no file / one file of at most MaxRows rows / several files of at most
\* MaxRows rows together / one long file: two groups of BulkPairs records each /
\* one file of at most MaxRows rows with equal areas / one file of seven rows
\* with equal areas and a nan, in one group / the same in seven groups
IsInput(v, in) ==
    \/ in = <<>>
    \/ \E c \in Contents(RowPool, MaxRows) : in = <<File(1, c)>>
    \/ /\ v # "floor"
       /\ \E k \in 2..MaxFiles :
            \E ps \in PathLists(k), cs \in Splits(BatchRowPool, MaxRows, k) :
                in = [i \in 1..k |-> File(ps[i], cs[i])]
    \/ in = <<File(1, [readable |-> TRUE,
                       rows |-> Repeat(<<BedroomA, LivingRoom>>, BulkPairs)])>>
    \/ \E c \in Contents(TiePool, MaxRows) : in = <<File(1, c)>>
    \/ in = <<File(1, [readable |-> TRUE, rows |-> [i \in 1..7 |-> BedTie(i)]])>>
    \/ in = <<File(1, [readable |-> TRUE, rows |-> [i \in 1..7 |-> RoomTie(i)]])>>

(***************************************************************************)
(* The run.                                                                *)
(***************************************************************************)
Init ==
    /\ variant \in Variants
    /\ IsInput(variant, input)
    /\ pc = "start"
    /\ csv_files = <<>>
    /\ idx = 0
    /\ file_data_list = <<>>
    /\ grand_total_area = IntZero
    /\ elements = <<>>
    /\ y = 0
    /\ page_height = PageHeightOf(variant)
    /\ output = <<>>
    /\ status = "running"
    /\ self_csv_files = <<>>
    /\ listbox = <<>>
    /\ selection = {}

RECURSIVE SortByPath(_)
\* sorted(glob.glob(CSV_FILES_PATTERN)): insertion of each file by its path
SortByPath(files) ==
    IF files = <<>> THEN <<>>
    ELSE LET f == files[Len(files)]
             sorted == SortByPath(SubSeq(files, 1, Len(files) - 1))
             before == SelectSeq(sorted, LAMBDA g : g.path <= f.path)
             after == SelectSeq(sorted, LAMBDA g : g.path > f.path)
         IN  before \o <<f>> \o after

\* no exit() when nothing is found: the run goes on to the document
FindCsvFilesGoesOn ==
    /\ pc = "start"
    /\ variant = "csvtosvg"
    /\ csv_files' = SortByPath(input)
    /\ pc' = IF input = <<>> THEN "build" ELSE "process"
    /\ status' = status
    /\ idx' = IF input = <<>> THEN idx ELSE 1
    /\ UNCHANGED <<gui, variant, input, file_data_list, grand_total_area, elements, y,
                   page_height, output>>

\* csvtosvg.py: the files found, sorted; none found: "No CSV files found!", exit()
FindCsvFiles ==
    /\ pc = "start"
    /\ variant = "csvtosvg"
    /\ csv_files' = SortByPath(input)
    /\ IF input = <<>>
       THEN /\ pc' = "exited"
            /\ status' = "no_input"
            /\ idx' = idx
       ELSE /\ pc' = "process"
            /\ status' = status
            /\ idx' = 1
    /\ UNCHANGED <<gui, variant, input, file_data_list, grand_total_area, elements, y,
                   page_height, output>>

\* floor.py: if not os.path.exists(CSV_FILE): print error, exit()
CheckCsvFile ==
    /\ pc = "start"
    /\ variant = "floor"
    /\ csv_files' = input
    /\ IF input = <<>>
       THEN /\ pc' = "exited"
            /\ status' = "no_input"
            /\ idx' = idx
       ELSE /\ pc' = "process"
            /\ status' = status
            /\ idx' = 1
    /\ UNCHANGED <<gui, variant, input, file_data_list, grand_total_area, elements, y,
                   page_height, output>>

\* space_calc.py generate_svg: if not ordered_files: return False, "No files selected"
CheckOrderedFiles ==
    /\ pc = "start"
    /\ variant = "space_calc"
    /\ csv_files' = input
    /\ IF input = <<>>
       THEN /\ pc' = "returned"
            /\ status' = "no_files_selected"
            /\ idx' = idx
       ELSE /\ pc' = "process"
            /\ status' = status
            /\ idx' = 1
    /\ UNCHANGED <<gui, variant, input, file_data_list, grand_total_area, elements, y,
                   page_height, output>>

\* a loop that gives up at the first file that cannot be processed (break in
\* the place of continue) and goes on with the files read so far
ProcessFileBreaks ==
    /\ pc = "process"
    /\ idx <= Len(csv_files)
    /\ LET file_data == process_csv_file(variant, csv_files[idx])
           last == file_data.raised \/ idx = Len(csv_files)
           list == IF file_data.raised THEN file_data_list
                   ELSE Append(file_data_list, file_data)
       IN  IF file_data.raised /\ variant # "space_calc"
           THEN /\ pc' = "crashed"
                /\ status' = "exception"
                /\ UNCHANGED <<idx, file_data_list, grand_total_area>>
           ELSE /\ file_data_list' = list
                /\ grand_total_area' =
                      IF file_data.raised THEN grand_total_area
                      ELSE FAdd(grand_total_area, file_data.file_total_area)
                /\ idx' = idx + 1
                /\ pc' = CASE ~last -> "process"
                           [] last /\ list = <<>> -> "returned"
                           [] OTHER -> "build"
                /\ status' = IF last /\ list = <<>> THEN "no_valid_data" ELSE status
    /\ UNCHANGED <<gui, variant, input, csv_files, elements, y, page_height, output>>

\* one pass of "for csv_file in csv_files": process_csv_file and the append.
\* csvtosvg.py and floor.py do not catch what process_csv_file raises; in
\* space_calc.py process_csv_file returns None and the file is left out, and
\* after the last file an empty file_data_list ends the run.
ProcessFile ==
    /\ pc = "process"
    /\ idx <= Len(csv_files)
    /\ LET file_data == process_csv_file(variant, csv_files[idx])
           last == idx = Len(csv_files)
           list == IF file_data.raised THEN file_data_list
                   ELSE Append(file_data_list, file_data)
       IN  IF file_data.raised /\ variant # "space_calc"
           THEN /\ pc' = "crashed"
                /\ status' = "exception"
                /\ UNCHANGED <<idx, file_data_list, grand_total_area>>
           ELSE /\ file_data_list' = list
                /\ grand_total_area' =
                      IF file_data.raised THEN grand_total_area
                      ELSE FAdd(grand_total_area, file_data.file_total_area)
                /\ idx' = idx + 1
                /\ pc' = CASE ~last -> "process"
                           [] last /\ list = <<>> -> "returned"
                           [] OTHER -> "build"
                /\ status' = IF last /\ list = <<>> THEN "no_valid_data" ELSE status
    /\ UNCHANGED <<gui, variant, input, csv_files, elements, y, page_height, output>>

\* elements = [the two main-title labels]; y = START_Y
BuildTitle ==
    /\ pc = "build"
    /\ elements' = MainTitle(variant, grand_total_area)
    /\ y' = START_Y
    /\ idx' = 1
    /\ pc' = "render"
    /\ UNCHANGED <<gui, variant, input, csv_files, file_data_list, grand_total_area,
                   page_height, output, status>>

\* one pass of "for file_data in file_data_list": the file title (not in
\* floor.py, which renders its single file without title or file gap), the
\* groups, the gap after the file
RenderFile ==
    /\ pc = "render"
    /\ idx <= Len(file_data_list)
    /\ LET file_data == file_data_list[idx]
           titled == variant # "floor"
           y0 == IF titled THEN y + ROW_GAP + FILE_TITLE_GAP ELSE y
           r == RenderGroups(file_data.sorted_groups, y0)
       IN  /\ elements' = elements
                          \o (IF titled THEN FileTitle(file_data, y) ELSE <<>>)
                          \o r.labels
           /\ y' = IF titled THEN r.y + FILE_GAP ELSE r.y
           /\ file_data_list' =
                 [file_data_list EXCEPT ![idx].sorted_groups = r.groups]
    /\ idx' = idx + 1
    /\ pc' = CASE idx < Len(file_data_list) -> "render"
               [] idx = Len(file_data_list) /\ variant = "floor" -> "adjust"
               [] OTHER -> "write"
    /\ UNCHANGED <<gui, variant, input, csv_files, grand_total_area, page_height,
                   output, status>>

\* floor.py: PAGE_HEIGHT = max(y + 100, PAGE_HEIGHT), and the header again
AdjustPageHeight ==
    /\ pc = "adjust"
    /\ page_height' = IF y + HEIGHT_MARGIN > page_height
                      THEN y + HEIGHT_MARGIN ELSE page_height
    /\ pc' = "write"
    /\ UNCHANGED <<gui, variant, input, csv_files, idx, file_data_list,
                   grand_total_area, elements, y, output, status>>

\* the header, the elements and the footer are written
WriteSvg ==
    /\ pc = "write"
    /\ output' = <<[width |-> PAGE_WIDTH, height |-> page_height,
                    elements |-> elements]>>
    /\ status' = "written"
    /\ pc' = "done"
    /\ UNCHANGED <<gui, variant, input, csv_files, idx, file_data_list,
                   grand_total_area, elements, y, page_height>>

\* open(output_path, "w") or a write fails: caught in space_calc.py
\* ("Error writing SVG file"), not caught in the batch scripts
WriteFails ==
    /\ pc = "write"
    /\ status' = IF variant = "space_calc" THEN "write_error" ELSE "write_exception"
    /\ pc' = IF variant = "space_calc" THEN "returned" ELSE "crashed"
    /\ UNCHANGED <<gui, variant, input, csv_files, idx, file_data_list,
                   grand_total_area, elements, y, page_height, output>>

Next ==
    \/ FindCsvFiles
    \/ CheckCsvFile
    \/ CheckOrderedFiles
    \/ ProcessFile
    \/ BuildTitle
    \/ RenderFile
    \/ AdjustPageHeight
    \/ WriteSvg
    \/ WriteFails

Spec == Init /\ [][Next]_vars

(***************************************************************************)
(* The GUI of space_calc.py.  The commands run on the interaction thread   *)
(* from the main loop (pc = "idle"); self.root.update() inside the         *)
(* generate command runs the commands that are pending (pc = "updating",   *)
(* a pending generate excepted); a message box is modal (pc = "warning",   *)
(* "dialog").  The files on disk do not change: Disk(p) is what path p     *)
(* holds.                                                                  *)
(***************************************************************************)
Disk(p) ==
    CASE p = 1 -> [readable |-> TRUE, rows |-> <<LivingRoom>>]
      [] p = 2 -> [readable |-> TRUE, rows |-> <<HallShort>>]
      [] p = 3 -> [readable |-> TRUE, rows |-> <<BedroomA, BedroomB>>]
      [] OTHER -> Unreadable

\* what filedialog.askopenfilenames returns: a tuple of paths, () on cancel
Picks == UNION {[1..k -> 1..MaxPaths] : k \in 0..MaxPick}

\* the commands can run
Interactive == variant = "space_calc" /\ pc \in {"idle", "updating"}

\* listbox.curselection()[0]
FirstSelected == CHOOSE i \in selection : \A j \in selection : i <= j

\* listbox.delete(index): the item goes, and with it its selection; the
\* items after it move up
ListboxDelete(lb, index) ==
    [items |-> [i \in 1..(Len(lb.items) - 1) |->
                   IF i <= index THEN lb.items[i] ELSE lb.items[i + 1]],
     sel |-> {i \in lb.sel : i < index} \cup {i - 1 : i \in {j \in lb.sel : j > index}}]

\* listbox.insert(index, text): the items from index on move down
ListboxInsert(lb, index, text) ==
    [items |-> [i \in 1..(Len(lb.items) + 1) |->
                   CASE i <= index -> lb.items[i]
                     [] i = index + 1 -> text
                     [] OTHER -> lb.items[i - 1]],
     sel |-> {i \in lb.sel : i < index} \cup {i + 1 : i \in {j \in lb.sel : j >= index}}]

\* listbox.select_set(index)
ListboxSelectSet(lb, index) == [lb EXCEPT !.sel = @ \cup {index}]

\* a[index], a[other] = a[other], a[index], 0-based
Swap(a, index, other) ==
    [a EXCEPT ![index + 1] = a[other + 1], ![other + 1] = a[index + 1]]

RECURSIVE AddFiles(_, _)
\* for file in files: if file not in self.csv_files: append, listbox.insert(END)
AddFiles(st, files) ==
    IF files = <<>> THEN st
    ELSE LET file == Head(files)
             known == \E i \in 1..Len(st.csv_files) : st.csv_files[i] = file
         IN  AddFiles(IF known THEN st
                      ELSE [csv_files |-> Append(st.csv_files, file),
                            items |-> Append(st.items, Basename(file))],
                      Tail(files))

InitGui ==
    /\ variant = "space_calc"
    /\ input = <<>>
    /\ pc = "idle"
    /\ csv_files = <<>>
    /\ idx = 0
    /\ file_data_list = <<>>
    /\ grand_total_area = IntZero
    /\ elements = <<>>
    /\ y = 0
    /\ page_height = PageHeightOf(variant)
    /\ output = <<>>
    /\ status = "ready"
    /\ self_csv_files = <<>>
    /\ listbox = <<>>
    /\ selection = {}

\* the user clicks an entry of the listbox (selectmode=tk.SINGLE)
ListboxSelect ==
    /\ Interactive
    /\ \E i \in 0..(Len(listbox) - 1) : selection' = {i}
    /\ UNCHANGED <<variant, input, pc, csv_files, idx, file_data_list,
                   grand_total_area, elements, y, page_height, output, status,
                   self_csv_files, listbox>>

add_csv_files ==
    /\ Interactive
    /\ \E files \in Picks :
          LET st == AddFiles([csv_files |-> self_csv_files, items |-> listbox], files)
          IN  /\ self_csv_files' = st.csv_files
              /\ listbox' = st.items
              /\ status' = IF files # <<>> THEN "added" ELSE status
    /\ UNCHANGED <<variant, input, pc, csv_files, idx, file_data_list,
                   grand_total_area, elements, y, page_height, output, selection>>

clear_all_files ==
    /\ Interactive
    /\ self_csv_files' = <<>>
    /\ listbox' = <<>>
    /\ selection' = {}
    /\ status' = "cleared"
    /\ UNCHANGED <<variant, input, pc, csv_files, idx, file_data_list,
                   grand_total_area, elements, y, page_height, output>>

remove_selected ==
    /\ Interactive
    /\ IF selection # {}
       THEN LET index == FirstSelected
                lb == ListboxDelete([items |-> listbox, sel |-> selection], index)
            IN  /\ listbox' = lb.items
                /\ selection' = lb.sel
                /\ self_csv_files' =
                      [i \in 1..(Len(self_csv_files) - 1) |->
                          IF i <= index THEN self_csv_files[i] ELSE self_csv_files[i + 1]]
                /\ status' = "removed"
       ELSE UNCHANGED <<gui, status>>
    /\ UNCHANGED <<variant, input, pc, csv_files, idx, file_data_list,
                   grand_total_area, elements, y, page_height, output>>



\* a move up that swaps the listbox entries and forgets self.csv_files
move_up_listbox_only ==
    /\ Interactive
    /\ IF selection # {} /\ FirstSelected > 0
       THEN LET index == FirstSelected
                lb0 == [items |-> listbox, sel |-> selection]
                item_text == listbox[index + 1]
                lb == ListboxSelectSet(
                          ListboxInsert(ListboxDelete(lb0, index), index - 1, item_text),
                          index - 1)
            IN  /\ listbox' = lb.items
                /\ selection' = lb.sel
                /\ self_csv_files' = self_csv_files
       ELSE UNCHANGED gui
    /\ UNCHANGED <<variant, input, pc, csv_files, idx, file_data_list,
                   grand_total_area, elements, y, page_height, output, status>>

move_up ==
    /\ Interactive
    /\ IF selection # {} /\ FirstSelected > 0
       THEN LET index == FirstSelected
                lb0 == [items |-> listbox, sel |-> selection]
                item_text == listbox[index + 1]
                lb == ListboxSelectSet(
                          ListboxInsert(ListboxDelete(lb0, index), index - 1, item_text),
                          index - 1)
            IN  /\ listbox' = lb.items
                /\ selection' = lb.sel
                /\ self_csv_files' = Swap(self_csv_files, index, index - 1)
       ELSE UNCHANGED gui
    /\ UNCHANGED <<variant, input, pc, csv_files, idx, file_data_list,
                   grand_total_area, elements, y, page_height, output, status>>

\* a move down that selects the old index again (select_set(index))
move_down_selects_old_index ==
    /\ Interactive
    /\ IF selection # {} /\ FirstSelected < Len(self_csv_files) - 1
       THEN LET index == FirstSelected
                lb0 == [items |-> listbox, sel |-> selection]
                item_text == listbox[index + 1]
                lb == ListboxSelectSet(
                          ListboxInsert(ListboxDelete(lb0, index), index + 1, item_text),
                          index)
            IN  /\ listbox' = lb.items
                /\ selection' = lb.sel
                /\ self_csv_files' = Swap(self_csv_files, index, index + 1)
       ELSE UNCHANGED gui
    /\ UNCHANGED <<variant, input, pc, csv_files, idx, file_data_list,
                   grand_total_area, elements, y, page_height, output, status>>

move_down ==
    /\ Interactive
    /\ IF selection # {} /\ FirstSelected < Len(self_csv_files) - 1
       THEN LET index == FirstSelected
                lb0 == [items |-> listbox, sel |-> selection]
                item_text == listbox[index + 1]
                lb == ListboxSelectSet(
                          ListboxInsert(ListboxDelete(lb0, index), index + 1, item_text),
                          index + 1)
            IN  /\ listbox' = lb.items
                /\ selection' = lb.sel
                /\ self_csv_files' = Swap(self_csv_files, index, index + 1)
       ELSE UNCHANGED gui
    /\ UNCHANGED <<variant, input, pc, csv_files, idx, file_data_list,
                   grand_total_area, elements, y, page_height, output, status>>

\* CSVProcessorGUI.generate_svg up to self.root.update(): no files, a warning
\* box and return; else the status "Processing CSV files..."
GuiGenerate ==
    /\ variant = "space_calc"
    /\ pc = "idle"
    /\ IF self_csv_files = <<>>
       THEN /\ pc' = "warning"
            /\ status' = status
       ELSE /\ pc' = "updating"
            /\ status' = "processing"
    /\ UNCHANGED <<gui, variant, input, csv_files, idx, file_data_list,
                   grand_total_area, elements, y, page_height, output>>

\* success, message = generate_svg(self.csv_files, output_filename): the call
CallGenerateSvg ==
    /\ variant = "space_calc"
    /\ pc = "updating"
    /\ input' = [i \in 1..Len(self_csv_files) |->
                    File(self_csv_files[i], Disk(self_csv_files[i]))]
    /\ pc' = "start"
    /\ UNCHANGED <<gui, variant, csv_files, idx, file_data_list, grand_total_area,
                   elements, y, page_height, output, status>>

\* the grand total of generate_svg outlives the call (a module-level
\* accumulator, as it is in csvtosvg.py)
ShowResultKeepsTotal ==
    /\ variant = "space_calc"
    /\ pc \in {"done", "returned"}
    /\ pc' = "dialog"
    /\ input' = <<>>
    /\ csv_files' = <<>>
    /\ idx' = 0
    /\ file_data_list' = <<>>
    /\ elements' = <<>>
    /\ y' = 0
    /\ UNCHANGED <<gui, variant, grand_total_area, page_height, output, status>>

\* generate_svg returns (its locals are gone); update_status(message) and the
\* message box
ShowResult ==
    /\ variant = "space_calc"
    /\ pc \in {"done", "returned"}
    /\ pc' = "dialog"
    /\ input' = <<>>
    /\ csv_files' = <<>>
    /\ idx' = 0
    /\ file_data_list' = <<>>
    /\ grand_total_area' = IntZero
    /\ elements' = <<>>
    /\ y' = 0
    /\ UNCHANGED <<gui, variant, page_height, output, status>>

\* the user closes the message box
DismissBox ==
    /\ variant = "space_calc"
    /\ pc \in {"warning", "dialog"}
    /\ pc' = "idle"
    /\ UNCHANGED <<gui, variant, input, csv_files, idx, file_data_list,
                   grand_total_area, elements, y, page_height, output, status>>

NextGui ==
    \/ ListboxSelect
    \/ add_csv_files
    \/ clear_all_files
    \/ remove_selected
    \/ move_up
    \/ move_down
    \/ GuiGenerate
    \/ CallGenerateSvg
    \/ CheckOrderedFiles
    \/ ProcessFile
    \/ BuildTitle
    \/ RenderFile
    \/ WriteSvg
    \/ WriteFails
    \/ ShowResult
    \/ DismissBox

SpecGui == InitGui /\ [][NextGui]_vars

\* the three programs together: the batch scripts as they are run, and
\* space_calc.py as its GUI
InitAll == InitGui \/ (Init /\ variant # "space_calc")

NextAll == Next \/ NextGui

SpecAll == InitAll /\ [][NextAll]_vars

(***************************************************************************)
(* What the properties below speak of.                                     *)
(***************************************************************************)
RECURSIVE Join(_)
\* a text as one string
Join(s) == IF s = <<>> THEN "" ELSE Head(s) \o Join(Tail(s))

Range(s) == {s[i] : i \in 1..Len(s)}

\* process_csv_file raises on this file
Raises(f) ==
    \/ ~f.readable
    \/ \E k \in 1..Len(f.rows) : f.rows[k].name = NoneVal \/ f.rows[k].area = NoneVal

\* the loader keeps this row: both fields non-blank and float() succeeds
Accepts(row) ==
    /\ row.name # NoneVal /\ row.area # NoneVal
    /\ Strip(row.name) # <<>>
    /\ Strip(row.area) # <<>>
    /\ ParseFloat(Strip(row.area)).ok

RecordOf(row) == [name |-> Strip(row.name), area |-> ParseFloat(Strip(row.area)).val]

\* the file a file_data was made from
FileOf(fd) == CHOOSE f \in Range(csv_files) : Basename(f.path) = fd.basename

\* how many accepted rows of f make the record r
CountRows(f, r) ==
    Cardinality({k \in 1..Len(f.rows) : Accepts(f.rows[k]) /\ RecordOf(f.rows[k]) = r})

\* how often the record r stands in the item lists of groups
CountItems(groups, r) ==
    Cardinality({ij \in UNION {{<<i, j>> : j \in 1..Len(groups[i].items)}
                               : i \in 1..Len(groups)} :
                    groups[ij[1]].items[ij[2]] = r})

AllItems(groups) == UNION {Range(groups[i].items) : i \in 1..Len(groups)}

(***************************************************************************)
(* C1: in csvtosvg.py and space_calc.py, the groups process_csv_file       *)
(* returns partition the accepted rows of the file: the keys are distinct, *)
(* every record stands in the group whose key is the first token of its    *)
(* name, and every record stands in the item lists exactly as often as     *)
(* accepted rows make it (none dropped, none duplicated).                  *)
(***************************************************************************)
C1_Partition ==
    variant # "floor" =>
        \A n \in 1..Len(file_data_list) :
            LET groups == file_data_list[n].sorted_groups
                f == FileOf(file_data_list[n])
                made == {RecordOf(f.rows[k]) : k \in {k \in 1..Len(f.rows) : Accepts(f.rows[k])}}
            IN  /\ \A i, j \in 1..Len(groups) : i # j => groups[i].key # groups[j].key
                /\ \A i \in 1..Len(groups) :
                      /\ groups[i].items # <<>>
                      /\ \A j \in 1..Len(groups[i].items) :
                            groups[i].key = FirstToken(groups[i].items[j].name)
                /\ \A r \in made \cup AllItems(groups) :
                      CountRows(f, r) = CountItems(groups, r)

\* a file with a rejected row gave one group of two records
C1_Witness ==
    /\ variant # "floor"
    /\ \E n \in 1..Len(file_data_list) :
          LET groups == file_data_list[n].sorted_groups
              f == FileOf(file_data_list[n])
          IN  /\ \E k \in 1..Len(f.rows) : ~Accepts(f.rows[k])
              /\ \E i \in 1..Len(groups) : Len(groups[i].items) = 2
              /\ Len(groups) = 1

\* the records the loader makes of the rows of f, in row order
Records(f) ==
    LET kept == SelectSeq(f.rows, Accepts)
    IN  [k \in 1..Len(kept) |-> RecordOf(kept[k])]

\* the totals of the groups, as a list of records with the field area
GroupTotalList(groups) == [i \in 1..Len(groups) |-> [area |-> SumAreas(groups[i].items)]]

\* the totals of the files of file_data_list, likewise
FileTotalList == [n \in 1..Len(file_data_list) |-> [area |-> file_data_list[n].file_total_area]]

\* the files are all read and the grand total is complete
Loaded == pc \in {"build", "render", "adjust", "write", "done"}

\* the files are all rendered
Rendered == pc \in {"adjust", "write", "done"}

\* how many files of csv_files process_csv_file has been applied to
ReadSoFar ==
    CASE pc = "start" -> 0
      [] pc = "process" -> idx - 1
      [] pc = "crashed" /\ status = "exception" -> idx
      [] OTHER -> Len(csv_files)

(***************************************************************************)
(* C2: for every file, the sum of its group totals equals (==) the sum of  *)
(* the areas of its accepted rows and equals its file_total_area; the      *)
(* grand total equals the sum of the file totals, and the document shows   *)
(* that sum as its grand total.                                            *)
(***************************************************************************)
C2_TotalsAgree ==
    /\ \A n \in 1..Len(file_data_list) :
          LET fd == file_data_list[n]
          IN  /\ FEq(SumAreas(GroupTotalList(fd.sorted_groups)), fd.file_total_area)
              /\ FEq(SumAreas(Records(FileOf(fd))), fd.file_total_area)
    /\ Loaded => FEq(grand_total_area, SumAreas(FileTotalList))
    /\ output # <<>> =>
          output[1].elements[2].text =
              AreaText(Round(SumAreas(FileTotalList)), ToSqft(SumAreas(FileTotalList)))

(***************************************************************************)
(* C3: once the files are rendered, the groups of every file stand in      *)
(* non-increasing order of group total (>=), and the records of every      *)
(* group of two or more in non-increasing order of area.                   *)
(***************************************************************************)
C3_Descending ==
    Rendered =>
        \A n \in 1..Len(file_data_list) :
            LET groups == file_data_list[n].sorted_groups
            IN  /\ \A i \in 1..(Len(groups) - 1) :
                      FGe(SumAreas(groups[i].items), SumAreas(groups[i + 1].items))
                /\ \A i \in 1..Len(groups) :
                      \A j \in 1..(Len(groups[i].items) - 1) :
                          FGe(groups[i].items[j].area, groups[i].items[j + 1].area)

(***************************************************************************)
(* C4: a row makes a record iff both fields are present and non-blank      *)
(* after trimming and the area parses as a finite number: the records of   *)
(* a file are those of such rows, and the file total is their sum (an      *)
(* area of inf or nan makes no record and changes no total).               *)
(***************************************************************************)
AcceptsFinite(row) == Accepts(row) /\ IsFinite(ParseFloat(Strip(row.area)).val)

C4_FiniteAreasOnly ==
    \A n \in 1..Len(file_data_list) :
        LET fd == file_data_list[n]
            f == FileOf(fd)
            kept == SelectSeq(f.rows, AcceptsFinite)
            made == [k \in 1..Len(kept) |-> RecordOf(kept[k])]
        IN  /\ \A r \in Range(made) \cup AllItems(fd.sorted_groups) :
                  Cardinality({k \in 1..Len(made) : made[k] = r})
                      = CountItems(fd.sorted_groups, r)
            /\ fd.file_total_area = SumFrom(made, IntZero)

(***************************************************************************)
(* C5: a row whose area is empty, non-numeric or absent is dropped and     *)
(* nothing else happens: reading a file that can be opened raises no       *)
(* error, and the file's records are exactly those of its other rows.      *)
(***************************************************************************)
C5_BadAreaOnlyDropsTheRow ==
    \A m \in 1..ReadSoFar :
        LET f == csv_files[m]
        IN  f.readable =>
                /\ ~(pc = "crashed" /\ status = "exception" /\ m = idx)
                /\ \E n \in 1..Len(file_data_list) :
                      LET fd == file_data_list[n]
                      IN  /\ fd.basename = Basename(f.path)
                          /\ \A r \in Range(Records(f)) \cup AllItems(fd.sorted_groups) :
                                CountRows(f, r) = CountItems(fd.sorted_groups, r)

\* the labels of the written document that stand for groups and records
BodyLabels ==
    SelectSeq(output[1].elements,
              LAMBDA l : l.class \in {"group", "group-area", "item", "area"})

\* class and text of the labels of ls
Shown(ls) == [i \in 1..Len(ls) |-> <<ls[i].class, Join(ls[i].text)>>]

\* is the label a group-total line "(Total: ...)"
IsTotalLine(l) == Len(l.text) >= 7 /\ Join(SubSeq(l.text, 1, 7)) = "(Total:"

\* the run reads the one file Living Room 20.5, Bedroom A 15.0, Bedroom B 12.0
Scenario ==
    /\ Len(input) = 1
    /\ input[1].readable
    /\ input[1].rows = <<LivingRoom, BedroomA, BedroomB>>

(***************************************************************************)
(* C6 (as the code has it): for the rows Living Room 20.5, Bedroom A 15.0, *)
(* Bedroom B 12.0 the document has two groups: Bedroom, with a group-total *)
(* line of 27.0 and the item rows Bedroom A, Bedroom B under it, and then  *)
(* the singleton Living Room as one name+area line.                        *)
(***************************************************************************)
C6_BedroomsGrouped ==
    Scenario /\ output # <<>> =>
        /\ Len(file_data_list[1].sorted_groups) = 2
        /\ Shown(BodyLabels) =
              << <<"group", "Bedroom">>,
                 <<"group-area", "(Total: 27.0 m2 / 290.63 sq.ft)">>,
                 <<"item", "Bedroom A">>, <<"area", "15.0 m2 / 161.46 sq.ft">>,
                 <<"item", "Bedroom B">>, <<"area", "12.0 m2 / 129.17 sq.ft">>,
                 <<"group", "Living Room">>,
                 <<"group-area", "20.5 m2 / 220.66 sq.ft">> >>

\* the scenario's document is written by csvtosvg.py, with a group-total line
C6_Witness ==
    /\ Scenario
    /\ variant = "csvtosvg"
    /\ output # <<>>
    /\ \E i \in 1..Len(output[1].elements) : IsTotalLine(output[1].elements[i])

\* C6 as stated: three singleton groups Living Room, Bedroom A, Bedroom B,
\* one name+area line each, and no group-total line
C6_ThreeSingletons ==
    Scenario /\ output # <<>> =>
        /\ Len(file_data_list[1].sorted_groups) = 3
        /\ \A i \in 1..3 : Len(file_data_list[1].sorted_groups[i].items) = 1
        /\ Shown(BodyLabels) =
              << <<"group", "Living Room">>, <<"group-area", "20.5 m2 / 220.66 sq.ft">>,
                 <<"group", "Bedroom A">>, <<"group-area", "15.0 m2 / 161.46 sq.ft">>,
                 <<"group", "Bedroom B">>, <<"group-area", "12.0 m2 / 129.17 sq.ft">> >>
        /\ \A i \in 1..Len(output[1].elements) : ~IsTotalLine(output[1].elements[i])

\* the labels of the written document that show an area pair
AreaLabels ==
    SelectSeq(output[1].elements,
              LAMBDA l : \/ l.class \in {"group-area", "area", "file-total"}
                         \/ l.class = "main-title" /\ l.y = TOTAL_Y)

\* the two numbers a label shows, as texts: "(Total: A m2 / B sq.ft)" or
\* "A m2 / B sq.ft"
PairShown(l) ==
    LET body == IF IsTotalLine(l) THEN SubSeq(l.text, 9, Len(l.text) - 1) ELSE l.text
        m2 == TakeToken(body)
        rest == SubSeq(body, Len(m2) + Len(AREA_UNIT_M2) + 4, Len(body))
    IN  [m2 |-> m2, ft2 |-> TakeToken(rest)]

\* the pair shown for an area a that is converted before it is rounded
PairOfExact(a) == [m2 |-> FormatNum(Round(a)), ft2 |-> FormatNum(ToSqft(a))]

\* the pair shown for an area a that is converted after it is rounded
PairOfRounded(a) == [m2 |-> FormatNum(Round(a)), ft2 |-> FormatNum(ToSqft(Round(a)))]

\* the pairs of one group, in document order
GroupPairs(g) ==
    IF Len(g.items) = 1 THEN <<PairOfExact(g.items[1].area)>>
    ELSE <<PairOfRounded(SumAreas(g.items))>>
         \o [j \in 1..Len(g.items) |-> PairOfExact(g.items[j].area)]

RECURSIVE GroupsPairs(_)
GroupsPairs(groups) ==
    IF groups = <<>> THEN <<>> ELSE GroupPairs(Head(groups)) \o GroupsPairs(Tail(groups))

RECURSIVE FilesPairs(_)
FilesPairs(fds) ==
    IF fds = <<>> THEN <<>>
    ELSE (IF variant = "floor" THEN <<>> ELSE <<PairOfExact(Head(fds).file_total_area)>>)
         \o GroupsPairs(Head(fds).sorted_groups) \o FilesPairs(Tail(fds))

(***************************************************************************)
(* C7 (as the code has it): the m2 value of every displayed pair is the    *)
(* area rounded to 2 decimals.  In a group-total header the sq.ft value is *)
(* that displayed (rounded) m2 value times 10.7639, rounded to 2 decimals; *)
(* in item rows, singleton rows, file totals and the grand total it is the *)
(* unrounded area times 10.7639, rounded to 2 decimals.                    *)
(***************************************************************************)
C7_SqftOfUnroundedArea ==
    output # <<>> =>
        [i \in 1..Len(AreaLabels) |-> PairShown(AreaLabels[i])]
            = <<PairOfExact(grand_total_area)>> \o FilesPairs(file_data_list)

\* a document with a group-total header and an item row of area 0.004,
\* shown as 0.0 m2 / 0.04 sq.ft
C7_Witness ==
    /\ output # <<>>
    /\ \E i \in 1..Len(AreaLabels) : IsTotalLine(AreaLabels[i])
    /\ \E i \in 1..Len(AreaLabels) :
          /\ AreaLabels[i].class = "area"
          /\ Join(AreaLabels[i].text) = "0.0 m2 / 0.04 sq.ft"

\* C7 as stated: in every displayed pair the sq.ft value is the displayed m2
\* value times 10.7639, rounded to 2 decimals
C7_SqftOfDisplayedArea ==
    output # <<>> =>
        \A i \in 1..Len(AreaLabels) :
            LET shown == PairShown(AreaLabels[i])
            IN  shown.ft2 = FormatNum(ToSqft(ParseFloat(shown.m2).val))

(***************************************************************************)
(* C8: every label of the written document has a y that does not exceed    *)
(* the height written in the header, and the final cursor y stays within   *)
(* that height, in every variant.                                          *)
(***************************************************************************)
C8_LabelsWithinCanvas ==
    output # <<>> =>
        /\ \A i \in 1..Len(output[1].elements) :
              output[1].elements[i].y <= output[1].height
        /\ y <= output[1].height

\* the files of the ordered list that can be read and parsed, in list order
Processable == SelectSeq(csv_files, LAMBDA f : ~Raises(f))

\* the areas of the records of the files of fs, as one list
RECURSIVE RecordsOfFiles(_)
RecordsOfFiles(fs) ==
    IF fs = <<>> THEN <<>> ELSE Records(Head(fs)) \o RecordsOfFiles(Tail(fs))

\* the labels of class cls in the written document, as texts
TextsOfClass(cls) ==
    LET ls == SelectSeq(output[1].elements, LAMBDA l : l.class = cls)
    IN  [i \in 1..Len(ls) |-> ls[i].text]

\* generate_svg has gone through the whole ordered list
AllRead == pc \in {"build", "render", "write", "done", "returned"} /\ csv_files # <<>>

(***************************************************************************)
(* C9: in generate_svg of space_calc.py a file whose reading or parsing    *)
(* raises is left out of the batch: no exception leaves the loop, the      *)
(* files kept are the other files in list order, the grand total is the    *)
(* sum over their records alone, the document has one file title and one  *)
(* file total for each of them, in list order, and none for a file that    *)
(* raised.  Reading the files ends the run ("No valid data found") only    *)
(* when every file raised.                                                 *)
(***************************************************************************)
C9_RaisingFilesLeftOut ==
    variant = "space_calc" =>
        /\ status # "exception"
        /\ AllRead =>
              /\ [n \in 1..Len(file_data_list) |-> file_data_list[n].basename]
                    = [n \in 1..Len(Processable) |-> Basename(Processable[n].path)]
              /\ grand_total_area = SumAreas(RecordsOfFiles(Processable))
              /\ status = "no_valid_data" <=> Processable = <<>>
              /\ Processable # <<>> => ~(pc = "returned" /\ status # "write_error")
        /\ output # <<>> =>
              /\ TextsOfClass("file-title")
                    = [n \in 1..Len(Processable) |-> Escape(Basename(Processable[n].path))]
              /\ TextsOfClass("file-total")
                    = [n \in 1..Len(Processable) |->
                          LET total == SumAreas(Records(Processable[n]))
                          IN  AreaText(Round(total), ToSqft(total))]

\* a document written by space_calc.py from a list whose first file raised
\* and whose second file gave a record
C9_Witness ==
    /\ variant = "space_calc"
    /\ output # <<>>
    /\ Len(csv_files) = 2
    /\ Raises(csv_files[1])
    /\ ~Raises(csv_files[2])
    /\ Len(file_data_list) = 1
    /\ file_data_list[1].sorted_groups # <<>>

\* the input is one or more files that can be read and that hold no row the
\* loader accepts
ZeroValidRows ==
    /\ input # <<>>
    /\ \A n \in 1..Len(input) :
          /\ input[n].readable
          /\ \A k \in 1..Len(input[n].rows) : ~Accepts(input[n].rows[k])

\* the run is over
Ended == pc \in {"done", "exited", "returned", "crashed"}

(***************************************************************************)
(* C10: when the input files hold zero valid rows in total, the run still  *)
(* produces a document (unless writing it fails); the document has no      *)
(* groups, its grand total reads 0.00 m2 / 0.00 sq.ft, and it holds no     *)
(* label beyond the two of the main title.                                 *)
(***************************************************************************)
C10_EmptyDocument ==
    ZeroValidRows =>
        /\ Ended /\ status \notin {"write_error", "write_exception"} => output # <<>>
        /\ output # <<>> =>
              /\ \A n \in 1..Len(file_data_list) : file_data_list[n].sorted_groups = <<>>
              /\ Join(output[1].elements[2].text) = "0.00 m2 / 0.00 sq.ft"
              /\ Len(output[1].elements) = 2

\* generate_svg is about to write over a document that was made of the same
\* files in the same order (the file titles of the document on disk are the
\* basenames of this call's files, the files on disk being what they were)
Regenerating ==
    /\ pc = "write"
    /\ output # <<>>
    /\ TextsOfClass("file-title")
          = [n \in 1..Len(file_data_list) |-> Escape(file_data_list[n].basename)]

InputMissing == pc = "start" /\ input = <<>>

\* the generate command is given with an empty file list
GenerateOnEmptyList == pc = "idle" /\ self_csv_files = <<>> /\ pc' # "idle"

(***************************************************************************)
(* C12: when the input is missing or empty the run reports it and stops    *)
(* and writes no document: the batch scripts exit (and take no further     *)
(* step), generate_svg returns "No files selected", the GUI's generate     *)
(* command shows its warning box and calls nothing; the document on disk   *)
(* and the GUI's file list are left as they were.                          *)
(***************************************************************************)
C12_MissingInputWritesNothing ==
    [][/\ InputMissing =>
            /\ pc' = IF variant = "space_calc" THEN "returned" ELSE "exited"
            /\ status' = IF variant = "space_calc" THEN "no_files_selected" ELSE "no_input"
            /\ output' = output
            /\ gui' = gui
       /\ GenerateOnEmptyList =>
            /\ pc' = "warning"
            /\ output' = output
            /\ gui' = gui
            /\ input' = input
       /\ pc \in {"exited", "warning"} =>
            /\ pc' = "idle"
            /\ variant = "space_calc"
            /\ output' = output
            /\ gui' = gui]_vars

\* the warning box is up over an empty list, the document of an earlier
\* generation still on disk
C12_Witness ==
    /\ pc = "warning"
    /\ self_csv_files = <<>>
    /\ listbox = <<>>
    /\ output # <<>>

\* the group keys of the records of f, in the order in which each is first seen
KeysSeen(f) ==
    LET recs == Records(f)
        keys == [k \in 1..Len(recs) |-> group_key(variant, recs[k].name)]
        first == SelectSeq([k \in 1..Len(keys) |-> k],
                           LAMBDA k : \A j \in 1..(k - 1) : keys[j] # keys[k])
    IN  [n \in 1..Len(first) |-> keys[first[n]]]

\* the total of the group of that key
TotalOfKey(groups, key) ==
    SumAreas(groups[CHOOSE i \in 1..Len(groups) : groups[i].key = key].items)

(***************************************************************************)
(* C13: ordering is stable for ties.  Once the files are rendered, the     *)
(* groups of a file that have one and the same total stand in the order in *)
(* which their keys were first seen in the CSV, and the records of a group *)
(* that have one and the same area stand in their CSV row order.           *)
(***************************************************************************)
C13_TiesKeepCsvOrder ==
    Rendered =>
        \A n \in 1..Len(file_data_list) :
            LET groups == file_data_list[n].sorted_groups
                f == FileOf(file_data_list[n])
            IN  \A i \in 1..Len(groups) :
                    LET t == SumAreas(groups[i].items)
                        tied == SelectSeq(groups, LAMBDA g : FEq(SumAreas(g.items), t))
                    IN  /\ [k \in 1..Len(tied) |-> tied[k].key]
                              = SelectSeq(KeysSeen(f),
                                          LAMBDA key : FEq(TotalOfKey(groups, key), t))
                        /\ \A j \in 1..Len(groups[i].items) :
                              LET a == groups[i].items[j].area
                              IN  SelectSeq(groups[i].items, LAMBDA it : FEq(it.area, a))
                                    = SelectSeq(Records(f),
                                          LAMBDA r : /\ group_key(variant, r.name) = groups[i].key
                                                     /\ FEq(r.area, a))

\* what the walk advances y by over one group
HeightOf(g) ==
    IF Len(g.items) = 1 THEN ROW_GAP
    ELSE (Len(g.items) + 1) * ROW_GAP + GROUP_GAP

RECURSIVE HeightBefore(_, _)
\* what the walk has advanced y by when it comes to the i-th group
HeightBefore(groups, i) ==
    IF i = 1 THEN 0 ELSE HeightBefore(groups, i - 1) + HeightOf(groups[i - 1])

RECURSIVE RowsOfGroups(_)
\* the rows the groups make: one for a group of one, n + 1 for a group of n
RowsOfGroups(groups) ==
    IF groups = <<>> THEN 0
    ELSE (IF Len(Head(groups).items) = 1 THEN 1 ELSE Len(Head(groups).items) + 1)
         + RowsOfGroups(Tail(groups))

RECURSIVE RowsOfFiles(_)
RowsOfFiles(fds) ==
    IF fds = <<>> THEN 0
    ELSE RowsOfGroups(Head(fds).sorted_groups) + RowsOfFiles(Tail(fds))

\* the y at which the groups of the n-th file of the document begin
GroupsStart(n) ==
    IF variant = "floor" THEN START_Y
    ELSE SelectSeq(output[1].elements, LAMBDA l : l.class = "file-title")[n].y
         + ROW_GAP + FILE_TITLE_GAP

\* the labels of the document at the height yy: x, text, and whether the
\* text is a group-total line
RowAt(yy) ==
    LET ls == SelectSeq(output[1].elements, LAMBDA l : l.y = yy)
    IN  [k \in 1..Len(ls) |-> [x |-> ls[k].x, text |-> ls[k].text]]

\* is the row a name at x and an area pair, the pair a total line or not
IsRow(row, x, name, total) ==
    /\ Len(row) = 2
    /\ row[1] = [x |-> x, text |-> Escape(name)]
    /\ row[2].x = START_X_AREA
    /\ IsTotalLine(row[2]) <=> total

(***************************************************************************)
(* C14: the layout walk.  A group of one record is one row at the current  *)
(* y: the record's full name and its area, no group-total line; y advances *)
(* by ROW_GAP and by no gap.  A group of n >= 2 records is a header row    *)
(* (the group key and "(Total: ...)") and n indented item rows, ROW_GAP    *)
(* apart, and y advances by (n + 1) * ROW_GAP and one gap more.  The       *)
(* document has no other group or item labels, and from row to row y       *)
(* strictly increases.                                                     *)
(***************************************************************************)
C14_LayoutWalk ==
    output # <<>> =>
        /\ \A n \in 1..Len(file_data_list) :
              LET groups == file_data_list[n].sorted_groups
              IN  \A i \in 1..Len(groups) :
                      LET g == groups[i]
                          yy == GroupsStart(n) + HeightBefore(groups, i)
                      IN  IF Len(g.items) = 1
                          THEN IsRow(RowAt(yy), START_X_NAME, g.items[1].name, FALSE)
                          ELSE /\ IsRow(RowAt(yy), START_X_NAME, g.key, TRUE)
                               /\ \A j \in 1..Len(g.items) :
                                     IsRow(RowAt(yy + j * ROW_GAP),
                                           START_X_NAME + ITEM_INDENT,
                                           g.items[j].name, FALSE)
        /\ Len(BodyLabels) = 2 * RowsOfFiles(file_data_list)
        /\ \A k \in 3..(Len(output[1].elements) - 1) :
              IF k % 2 = 1
              THEN output[1].elements[k].y = output[1].elements[k + 1].y
              ELSE output[1].elements[k].y < output[1].elements[k + 1].y

\* a document with a group of one record and a group of two
C14_Witness ==
    /\ output # <<>>
    /\ \E n \in 1..Len(file_data_list) :
          LET groups == file_data_list[n].sorted_groups
          IN  /\ Len(groups) = 2
              /\ Len(groups[1].items) = 2
              /\ Len(groups[2].items) = 1

\* the pairs of one group when every sq.ft value is converted before it is
\* rounded
GroupPairsExact(g) ==
    IF Len(g.items) = 1 THEN <<PairOfExact(g.items[1].area)>>
    ELSE <<PairOfExact(SumAreas(g.items))>>
         \o [j \in 1..Len(g.items) |-> PairOfExact(g.items[j].area)]

RECURSIVE GroupsPairsExact(_)
GroupsPairsExact(groups) ==
    IF groups = <<>> THEN <<>>
    ELSE GroupPairsExact(Head(groups)) \o GroupsPairsExact(Tail(groups))

RECURSIVE FilesPairsExact(_)
FilesPairsExact(fds) ==
    IF fds = <<>> THEN <<>>
    ELSE (IF variant = "floor" THEN <<>> ELSE <<PairOfExact(Head(fds).file_total_area)>>)
         \o GroupsPairsExact(Head(fds).sorted_groups) \o FilesPairsExact(Tail(fds))

(***************************************************************************)
(* C15: every displayed sq.ft value is the unrounded value (the unrounded  *)
(* area, or the unrounded sum) times 10.7639, rounded to 2 decimals, never *)
(* the conversion of a value rounded beforehand: in the group-total header *)
(* as in the item rows, the file totals and the grand total.               *)
(***************************************************************************)
C15_SqftNeverFromRounded ==
    output # <<>> =>
        [i \in 1..Len(AreaLabels) |-> PairShown(AreaLabels[i])]
            = <<PairOfExact(grand_total_area)>> \o FilesPairsExact(file_data_list)

(***************************************************************************)
(* C16: the two derivations of the grouping key are equivalent: every      *)
(* record stands in a group whose key is both floor.py's key of its name   *)
(* and the key of csvtosvg.py and space_calc.py, so every variant makes    *)
(* the same groups of the same rows.                                       *)
(***************************************************************************)
C16_SameKeyInEveryVariant ==
    \A n \in 1..Len(file_data_list) :
        LET groups == file_data_list[n].sorted_groups
        IN  \A i \in 1..Len(groups) :
                \A j \in 1..Len(groups[i].items) :
                    /\ groups[i].key = group_key("floor", groups[i].items[j].name)
                    /\ groups[i].key = group_key("csvtosvg", groups[i].items[j].name)
                    /\ groups[i].key = group_key("space_calc", groups[i].items[j].name)

(***************************************************************************)
(* C17: after any sequence of GUI commands self.csv_files and the listbox  *)
(* are in step: they have the same length, entry i of the listbox is the   *)
(* basename of the i-th path, and no path stands twice in self.csv_files.  *)
(***************************************************************************)
C17_ListboxInStep ==
    /\ Len(listbox) = Len(self_csv_files)
    /\ \A i \in 1..Len(self_csv_files) : listbox[i] = Basename(self_csv_files[i])
    /\ \A i, j \in 1..Len(self_csv_files) :
          self_csv_files[i] = self_csv_files[j] => i = j

\* after adding, removing, selecting and generating: two files out of their
\* path order, the second one selected, a document on disk
C17_Witness ==
    /\ status = "removed"
    /\ pc = "idle"
    /\ Len(self_csv_files) = 2
    /\ self_csv_files[1] > self_csv_files[2]
    /\ selection = {1}
    /\ output # <<>>

\* a is b with the entries at the 0-based places i and i + 1 exchanged
Exchanged(a, b, i) ==
    /\ Len(a) = Len(b)
    /\ a[i + 1] = b[i + 2]
    /\ a[i + 2] = b[i + 1]
    /\ \A k \in 1..Len(b) : k \notin {i + 1, i + 2} => a[k] = b[k]

\* the step left the paths, the listbox and the selection as they were,
\* but for the entries at i and i + 1, exchanged, and the selection, now at to
MovedOnly(i, to) ==
    /\ Exchanged(self_csv_files', self_csv_files, i)
    /\ Exchanged(listbox', listbox, i)
    /\ selection' = {to}
    /\ Range(self_csv_files') = Range(self_csv_files)

\* generate_svg is running
Generating == pc \in {"start", "process", "build", "render", "write", "done"}

(***************************************************************************)
(* C18: move_up and move_down only reorder.  With an entry selected that   *)
(* is not the first (move_up) or not the last (move_down) the step         *)
(* exchanges the selected path and listbox entry with its neighbour and    *)
(* the selection goes with it; length and set of paths stay; otherwise the *)
(* step changes nothing.  generate_svg then goes through the files in the  *)
(* order of the list: its ordered_files are the paths of self.csv_files,   *)
(* and the files it keeps are the processable ones among them, in order.   *)
(***************************************************************************)
C18_MovesOnlyReorder ==
    /\ [][/\ move_up =>
               IF selection # {} /\ FirstSelected > 0
               THEN MovedOnly(FirstSelected - 1, FirstSelected - 1)
               ELSE UNCHANGED vars
          /\ move_down =>
               IF selection # {} /\ FirstSelected < Len(self_csv_files) - 1
               THEN MovedOnly(FirstSelected, FirstSelected + 1)
               ELSE UNCHANGED vars]_vars
    /\ [](Generating /\ pc # "start" =>
            /\ [i \in 1..Len(csv_files) |-> csv_files[i].path] = self_csv_files
            /\ pc # "process" =>
                  [n \in 1..Len(file_data_list) |-> file_data_list[n].basename]
                      = [n \in 1..Len(Processable) |-> Basename(Processable[n].path)])

\* generate_svg has gone through f3 and then f1: the list a move of f3 above
\* f1 leaves, the selection on the first entry
C18_Witness ==
    /\ pc = "done"
    /\ self_csv_files = <<3, 2, 1>>
    /\ selection = {0}
    /\ Len(file_data_list) = 2
    /\ file_data_list[1].basename = Basename(3)

=============================================================================
